---- MODULE Spec2Model ----
(***************************************************************************)
(* Customer-churn pipeline: the latest-file resolver (find_latest_file of  *)
(* the validation and preparation stages), the two partitioning steps      *)
(* (store_data of ingestion, partition_raw_data of raw storage) over an    *)
(* abstract filesystem, and the table functions of validation,             *)
(* preparation and model building.                                         *)
(***************************************************************************)
EXTENDS Integers, Sequences, FiniteSets, TLC

VARIABLES
    \* ---- the resolver, called on an arbitrary directory tree ----
    tree,       \* the files under root_dir: a set of [dir, name, mtime]
    rootExists, \* whether root_dir exists
    extension,  \* the extension argument
    res,        \* the last call of find_latest_file
    \* ---- the pipeline's filesystem ----
    now,        \* the wall clock, in seconds
    fs,         \* path -> [kind, content, mtime]
    writers,    \* path -> the stages that have written it
    last,       \* the last operation run and how it ended
    nops,       \* steps taken so far: operations run and waits between them
    \* ---- the tables of one pass over a raw file ----
    raw,        \* the raw file: missing, malformed, or a CSV table
    clean,      \* the last run of prepare_data: its outcome and its table
    ready,      \* the last run of load_and_prepare_data on its CSV
    report,     \* the last run of validate_data: what it returned
    \* ---- the feature registry ----
    registry,   \* feature_store.json: absent, or the JSON object it holds
    calls,      \* the register_feature calls made so far, in order
    answer,     \* the last call of get_feature_metadata or list_features
    inflight,   \* caller -> a register_feature call in progress: where it is, what it read
    \* ---- one run of the DAG ----
    tasks,      \* task -> its state in the run and the tries it has had
    trail       \* what the task that ran last did, step by step

vars == <<tree, rootExists, extension, res, now, fs, writers, last, nops,
          raw, clean, ready, report, registry, calls, answer, inflight,
          tasks, trail>>
resolverVars == <<tree, rootExists, extension, res>>
pipelineVars == <<now, fs, writers, last, nops>>
tableVars == <<raw, clean, ready, report>>
registryVars == <<registry, calls, answer, inflight>>
dagVars == <<tasks, trail>>

----------------------------------------------------------------------------
(* Bounds of the model *)

\* largest modification time of a file in a resolver tree
MaxMTime == 2
\* most files in a resolver tree
MaxFiles == 3
\* the clock runs over days 1..MaxDay
MaxDay == 2
\* seconds of a day: 0..MaxSec
MaxSec == 1
\* most steps (operations and waits) in one behaviour of the pipeline
MaxOps == 4
\* most rows of a raw table whose cells are drawn freely
MaxRows == 3
\* most distinct levels of a categorical column
MaxLevels == 51
\* most register_feature calls in one behaviour of the registry
MaxCalls == 3

\* find_latest_file returns a set: empty for None, else the one file
None == {}

----------------------------------------------------------------------------
(* File names.  A name is base [_stamp]* ext, with a leading dot when      *)
(* hidden; a stamp is the %Y%m%d_%H%M%S rendering of a wall-clock second.  *)

MkName(base, stamps, ext, hidden) ==
    [base |-> base, stamps |-> stamps, ext |-> ext, hidden |-> hidden]

\* str.lower() on the part of the name the resolver looks at
lower(s) == CASE s = ".CSV" -> ".csv"
              [] s = ".TXT" -> ".txt"
              [] OTHER -> s

\* file.startswith('.')
startswith_dot(name) == name.hidden

\* file.lower().endswith(extension)
lower_endswith(name, ext) == ext # "" /\ lower(name.ext) = ext

\* os.path.splitext(file): <<name, ext>>; the record keeps the two apart
splitext(name) == <<[name EXCEPT !.ext = ""], name.ext>>

----------------------------------------------------------------------------
(* os.walk(root_dir): top-down, the files of one directory together, the   *)
(* root's files first; within a directory, and among the subdirectories,   *)
(* the order is whatever os.scandir yields.  A root that does not exist    *)
(* makes scandir fail, and os.walk (onerror=None) swallows the error and   *)
(* yields nothing.                                                         *)

RootDir == <<>>

SeqsOver(S) == { s \in [1..Cardinality(S) -> S] :
                   \A i, j \in 1..Cardinality(S) : i # j => s[i] # s[j] }

IsWalkOrder(o) ==
    /\ \A i, j \in 1..Len(o) :
         (i < j /\ o[j].dir = RootDir) => o[i].dir = RootDir
    /\ \A i, j, k \in 1..Len(o) :
         (i < j /\ j < k /\ o[i].dir = o[k].dir) => o[j].dir = o[i].dir

os_walk(exists, files) ==
    IF exists THEN { o \in SeqsOver(files) : IsWalkOrder(o) } ELSE { <<>> }

----------------------------------------------------------------------------
(* find_latest_file, as each of its two copies computes it *)

RECURSIVE latest_loop(_, _, _, _, _, _)
latest_loop(order, i, latest_time, latest_file, ext, skipHidden) ==
    IF i > Len(order) THEN latest_file
    ELSE LET f == order[i] IN
         IF skipHidden /\ startswith_dot(f.name)
         THEN latest_loop(order, i + 1, latest_time, latest_file, ext, skipHidden)
         ELSE IF lower_endswith(f.name, ext) /\ f.mtime > latest_time
              THEN latest_loop(order, i + 1, f.mtime, {f}, ext, skipHidden)
              ELSE latest_loop(order, i + 1, latest_time, latest_file, ext, skipHidden)

\* src/validation/data_validation.py
find_latest_file_validation(order, ext) ==
    latest_loop(order, 1, 0, None, ext, FALSE)

\* src/preparation/data_preparation.py
find_latest_file_preparation(order, ext) ==
    latest_loop(order, 1, 0, None, ext, TRUE)

----------------------------------------------------------------------------
(* The resolver on an arbitrary directory tree *)

Slots == { [dir |-> RootDir, name |-> MkName("a", <<>>, ".csv", FALSE)],
           [dir |-> RootDir, name |-> MkName("b", <<>>, ".CSV", FALSE)],
           [dir |-> RootDir, name |-> MkName("h", <<>>, ".csv", TRUE)],
           [dir |-> RootDir, name |-> MkName("d", <<>>, ".txt", FALSE)],
           [dir |-> <<"sub">>, name |-> MkName("a", <<>>, ".csv", FALSE)],
           [dir |-> <<"sub">>, name |-> MkName("e", <<>>, "",     FALSE)] }
Extensions == {".csv", ".txt"}

File(slot, mtime) == [dir |-> slot.dir, name |-> slot.name, mtime |-> mtime]

Trees == UNION { [S -> 0..MaxMTime] : S \in { T \in SUBSET Slots : Cardinality(T) <= MaxFiles } }
TreeFiles(t) == { File(s, t[s]) : s \in DOMAIN t }

NoCall == [by |-> "none", order |-> <<>>, outcome |-> "none", value |-> None]

Range(s) == { s[i] : i \in DOMAIN s }

\* no raw file, and no run of the table functions yet
EmptyTable == [cols |-> <<>>, dtype |-> <<>>, rows |-> <<>>]
NoFile == [kind |-> "missing", cols |-> <<>>, rows |-> <<>>]
NoRun == [outcome |-> "none", table |-> EmptyTable]
NoReady == [outcome |-> "none", returned |-> "none", X |-> EmptyTable, y |-> <<>>]
NoReport == [outcome |-> "none", keys |-> {}, error |-> "",
             total_rows |-> 0, total_columns |-> 0, missing_values |-> <<>>,
             duplicate_rows |-> 0, invalid_age_rows |-> 0,
             employee_number_unique |-> FALSE]
TablesIdle ==
    /\ raw = NoFile
    /\ clean = NoRun
    /\ ready = NoReady
    /\ report = NoReport

\* no registry file and no call of the registry yet
Absent == [exists |-> FALSE, object |-> <<>>]
NoRecord == [description |-> "", source |-> "", version |-> ""]
NoAnswer == [op |-> "none", name |-> "", found |-> FALSE, record |-> NoRecord, all |-> <<>>]
RegistryIdle ==
    /\ registry = Absent
    /\ calls = <<>>
    /\ answer = NoAnswer
    /\ inflight = <<>>

\* the tasks of the DAG, in the order of its dependencies
TaskIds == <<"data_ingestion", "raw_data_storage", "data_validation", "data_preparation",
             "data_transformation", "feature_store", "data_versioning", "model_building">>
DagIdle ==
    /\ tasks = [ t \in Range(TaskIds) |-> [state |-> "none", tries |-> 0] ]
    /\ trail = <<>>

\* the pipeline's state before anything has run
FirstSecond == MaxSec + 1
PipelineInit ==
    /\ now = FirstSecond
    /\ fs = <<>>
    /\ writers = <<>>
    /\ last = [op |-> "none", outcome |-> "none", at |-> FirstSecond, again |-> FALSE]
    /\ nops = 0

ResolverInit ==
    /\ rootExists \in BOOLEAN
    /\ tree \in { TreeFiles(t) : t \in Trees }
    /\ rootExists = FALSE => tree = {}
    /\ extension \in Extensions
    /\ res = NoCall
    /\ PipelineInit
    /\ TablesIdle
    /\ RegistryIdle
    /\ DagIdle

\* find_latest_file(root_dir, extension) of data_validation.py
ValidationResolve ==
    /\ \E order \in os_walk(rootExists, tree) :
         res' = [by |-> "validation", order |-> order, outcome |-> "returned",
                 value |-> find_latest_file_validation(order, extension)]
    /\ UNCHANGED <<tree, rootExists, extension>>
    /\ UNCHANGED pipelineVars
    /\ UNCHANGED tableVars
    /\ UNCHANGED registryVars
    /\ UNCHANGED dagVars

\* find_latest_file(root_dir, extension) of data_preparation.py
PreparationResolve ==
    /\ \E order \in os_walk(rootExists, tree) :
         res' = [by |-> "preparation", order |-> order, outcome |-> "returned",
                 value |-> find_latest_file_preparation(order, extension)]
    /\ UNCHANGED <<tree, rootExists, extension>>
    /\ UNCHANGED pipelineVars
    /\ UNCHANGED tableVars
    /\ UNCHANGED registryVars
    /\ UNCHANGED dagVars

ResolverNext == ValidationResolve \/ PreparationResolve

SpecResolver == ResolverInit /\ [][ResolverNext]_vars

----------------------------------------------------------------------------
(* The pipeline's filesystem.  A path is root/part/name: part is <<>> or   *)
(* the one component <<day>> standing for <yyyy>/<mm>/<dd>.                *)

RawRoot      == "data/raw/kaggle"
StoredBase   == "data/stored/raw"
StoredKaggle == "data/stored/raw/kaggle"

Path(root, part, name) == [root |-> root, part |-> part, name |-> name]

\* the clock: seconds since the epoch; day 0 is the epoch's day
SecsPerDay == MaxSec + 1
LastSecond == (MaxDay + 1) * SecsPerDay - 1
\* strftime("%Y"), ("%m"), ("%d") of a time: the calendar day
Day(t) == t \div SecsPerDay
\* strftime("%Y%m%d_%H%M%S")
time_str(t) == [ymd |-> Day(t), hms |-> t % SecsPerDay]

\* what a file holds: one of two versions of the dataset, or the cut-off
\* beginning of one when a copy broke off part-way
Contents == {"v1", "v2"}
Truncated == "cut"

RegularFile(c, t) == [kind |-> "file", content |-> c, mtime |-> t]
Directory(t) == [kind |-> "dir", content |-> "", mtime |-> t]

\* the names the dataset download can leave in the raw folder
RawA == MkName("a", <<>>, ".csv", FALSE)
RawS == MkName("a", <<time_str(FirstSecond)>>, ".csv", FALSE)
RawD == MkName("d", <<time_str(FirstSecond)>>, ".d", FALSE)
RawFileNames == {RawA, RawS}
RawDirNames == {RawD}

\* os.listdir(folder): the names directly in root/part
listdir(f, root, part) == { p.name : p \in { q \in DOMAIN f : q.root = root /\ q.part = part } }
\* os.path.isfile
isfile(f, p) == p \in DOMAIN f /\ f[p].kind = "file"

\* timestamp_pattern = re.compile(r".*_\d{8}_\d{6}\..*$")
timestamp_pattern_match(name) == Len(name.stamps) >= 1 /\ name.ext # ""

\* f"{name}_{time_str}{ext}" with name, ext = os.path.splitext(file)
new_file_name(file, ts) ==
    LET sp == splitext(file)
    IN  [sp[1] EXCEPT !.stamps = Append(@, ts), !.ext = sp[2]]

Write(f, p, file) == (p :> file) @@ f
Remove(f, ps) == [p \in (DOMAIN f) \ ps |-> f[p]]
Wrote(w, p, stage) == (p :> ((IF p \in DOMAIN w THEN w[p] ELSE {}) \cup {stage})) @@ w

\* clearing the folder before it is made again (the replace policy)
rmtree_makedirs(f, root, part) ==
    [p \in { q \in DOMAIN f : ~(q.root = root /\ q.part = part) } |-> f[p]]

\* os.makedirs(target_folder, exist_ok=True): what the folder holds is kept
makedirs_exist_ok(f, root, part) == f

\* shutil.copy(src, dst): content copied, modification time that of the copy
shutil_copy(f, src, dst, t) == Write(f, dst, RegularFile(f[src].content, t))

\* shutil.copy that breaks off: nothing written, or a truncated destination
CopyFailures == {"untouched", "truncated"}
shutil_copy_fails(f, dst, t, how) ==
    IF how = "truncated" THEN Write(f, dst, RegularFile(Truncated, t)) ELSE f

\* The loop of store_data: jobs is the sequence of <<src, dst>> copies in
\* listing order, failAt the position of the copy that raises (0: none
\* does).  The loop has no try/except: the exception leaves the loop.
RECURSIVE copy_loop(_, _, _, _, _, _)
copy_loop(f, jobs, i, failAt, how, t) ==
    IF i > Len(jobs) THEN f
    ELSE IF i = failAt THEN shutil_copy_fails(f, jobs[i][2], t, how)
    ELSE copy_loop(shutil_copy(f, jobs[i][1], jobs[i][2], t), jobs, i + 1, failAt, how, t)

RECURSIVE wrote_loop(_, _, _, _, _, _)
wrote_loop(w, jobs, i, failAt, how, stage) ==
    IF i > Len(jobs) THEN w
    ELSE IF i = failAt THEN (IF how = "truncated" THEN Wrote(w, jobs[i][2], stage) ELSE w)
    ELSE wrote_loop(Wrote(w, jobs[i][2], stage), jobs, i + 1, failAt, how, stage)

\* again: the operation before this one was the same one and it ended well
Ran(op, outcome) ==
    /\ last' = [op |-> op, outcome |-> outcome, at |-> now,
                again |-> (last.op = op /\ last.outcome = "ok")]
    /\ nops' = nops + 1

CanRun == nops < MaxOps

----------------------------------------------------------------------------
(* Ingestion: download_kaggle_dataset and store_data *)

\* The kaggle CLI unpacks a file of the dataset into dest_folder, or exits
\* non-zero; the error is logged and swallowed.
download_kaggle_dataset ==
    /\ CanRun
    /\ \/ \E n \in RawFileNames, c \in Contents :
            /\ fs' = Write(fs, Path(RawRoot, <<>>, n), RegularFile(c, now))
            /\ writers' = Wrote(writers, Path(RawRoot, <<>>, n), "ingestion")
            /\ Ran("download_kaggle_dataset", "ok")
       \/ /\ UNCHANGED <<fs, writers>>
          /\ Ran("download_kaggle_dataset", "CalledProcessError")
    /\ UNCHANGED now
    /\ UNCHANGED resolverVars
    /\ UNCHANGED tableVars
    /\ UNCHANGED registryVars
    /\ UNCHANGED dagVars

\* the copies store_data makes, in the order os.listdir(raw_folder) gives
store_jobs(f, order, t) ==
    LET files == SelectSeq(order, LAMBDA n : isfile(f, Path(RawRoot, <<>>, n)))
    IN  [i \in 1..Len(files) |->
            <<Path(RawRoot, <<>>, files[i]),
              Path(StoredKaggle, <<Day(t)>>, new_file_name(files[i], time_str(t)))>>]

\* store_data's clean-up: files directly under stored_base_folder are removed
store_cleanup(f) ==
    Remove(f, { p \in DOMAIN f : p.root = StoredBase /\ p.part = <<>> /\ f[p].kind = "file" })

store_data ==
    /\ CanRun
    /\ LET f0 == makedirs_exist_ok(fs, StoredKaggle, <<Day(now)>>) IN
       \E jobs \in { store_jobs(f0, order, now) : order \in SeqsOver(listdir(fs, RawRoot, <<>>)) } :
             \/ /\ fs' = store_cleanup(copy_loop(f0, jobs, 1, 0, "untouched", now))
                /\ writers' = wrote_loop(writers, jobs, 1, 0, "untouched", "ingestion")
                /\ Ran("store_data", "ok")
             \/ \E k \in 1..Len(jobs), how \in CopyFailures :
                  /\ fs' = copy_loop(f0, jobs, 1, k, how, now)
                  /\ writers' = wrote_loop(writers, jobs, 1, k, how, "ingestion")
                  /\ Ran("store_data", "IOError")
    /\ UNCHANGED now
    /\ UNCHANGED resolverVars
    /\ UNCHANGED tableVars
    /\ UNCHANGED registryVars
    /\ UNCHANGED dagVars

----------------------------------------------------------------------------
(* Raw storage: partition_raw_data *)

\* partitioning by the timestamp in the name instead of the modification time
partition_jobs_by_name(f, order) ==
    LET files == SelectSeq(order, LAMBDA n : /\ timestamp_pattern_match(n)
                                             /\ isfile(f, Path(RawRoot, <<>>, n)))
    IN  [i \in 1..Len(files) |->
            <<Path(RawRoot, <<>>, files[i]),
              Path(StoredKaggle, <<files[i].stamps[Len(files[i].stamps)].ymd>>, files[i])>>]

\* the copies partition_raw_data makes, in the order os.listdir gives
partition_jobs(f, order) ==
    LET files == SelectSeq(order, LAMBDA n : /\ timestamp_pattern_match(n)
                                             /\ isfile(f, Path(RawRoot, <<>>, n)))
    IN  [i \in 1..Len(files) |->
            <<Path(RawRoot, <<>>, files[i]),
              Path(StoredKaggle, <<Day(f[Path(RawRoot, <<>>, files[i])].mtime)>>, files[i])>>]

\* the loop of partition_raw_data: the partition folder is made, then the
\* file copied into it; no try/except here either
RECURSIVE partition_loop(_, _, _, _, _, _)
partition_loop(f, jobs, i, failAt, how, t) ==
    IF i > Len(jobs) THEN f
    ELSE LET f1 == makedirs_exist_ok(f, jobs[i][2].root, jobs[i][2].part) IN
         IF i = failAt THEN shutil_copy_fails(f1, jobs[i][2], t, how)
         ELSE partition_loop(shutil_copy(f1, jobs[i][1], jobs[i][2], t), jobs, i + 1, failAt, how, t)

partition_raw_data ==
    /\ CanRun
    /\ LET f0 == makedirs_exist_ok(fs, StoredBase, <<>>) IN
       \E jobs \in { partition_jobs(f0, order) : order \in SeqsOver(listdir(fs, RawRoot, <<>>)) } :
             \/ /\ fs' = partition_loop(f0, jobs, 1, 0, "untouched", now)
                /\ writers' = wrote_loop(writers, jobs, 1, 0, "untouched", "raw_storage")
                /\ Ran("partition_raw_data", "ok")
             \/ \E k \in 1..Len(jobs), how \in CopyFailures :
                  /\ fs' = partition_loop(f0, jobs, 1, k, how, now)
                  /\ writers' = wrote_loop(writers, jobs, 1, k, how, "raw_storage")
                  /\ Ran("partition_raw_data", "IOError")
    /\ UNCHANGED now
    /\ UNCHANGED resolverVars
    /\ UNCHANGED tableVars
    /\ UNCHANGED registryVars
    /\ UNCHANGED dagVars

----------------------------------------------------------------------------
(* Transformation: store_transformed_data, run by the stage's main *)

Processed  == "data/processed"
CleanData  == Path(Processed, <<>>, MkName("clean_data", <<>>, ".csv", FALSE))
FeaturesDb == Path(Processed, <<>>, MkName("employee_attrition_features", <<>>, ".db", FALSE))

\* df.to_sql("employee_features", conn, if_exists="replace"): the database
\* file holds the table as the sequence of the loads that make it up
to_sql_append(f, db, load, t) ==
    Write(f, db, RegularFile((IF db \in DOMAIN f THEN f[db].content ELSE <<>>) \o <<load>>, t))
to_sql_replace(f, db, load, t) ==
    Write(f, db, RegularFile(<<load>>, t))

\* if_exists="append" in place of "replace"
store_transformed_data_append(f, load, db, t) == to_sql_append(f, db, load, t)

store_transformed_data(f, load, db, t) == to_sql_replace(f, db, load, t)

\* the main of data_transformation.py: without clean_data.csv it prints and
\* ends; with it, it loads the transformed table into the database
transformation ==
    /\ CanRun
    /\ IF CleanData \in DOMAIN fs
       THEN /\ fs' = store_transformed_data(fs, fs[CleanData].content, FeaturesDb, now)
            /\ writers' = Wrote(writers, FeaturesDb, "transformation")
            /\ Ran("store_transformed_data", "ok")
       ELSE /\ UNCHANGED <<fs, writers>>
            /\ Ran("store_transformed_data", "not found")
    /\ UNCHANGED now
    /\ UNCHANGED resolverVars
    /\ UNCHANGED tableVars
    /\ UNCHANGED registryVars
    /\ UNCHANGED dagVars

----------------------------------------------------------------------------
(* The clock and the pipeline as a whole *)

\* time passes between two operations: any later second of the model's days
Tick ==
    /\ CanRun
    /\ \E t \in (now + 1)..LastSecond : now' = t
    /\ nops' = nops + 1
    /\ UNCHANGED <<fs, writers, last>>
    /\ UNCHANGED resolverVars
    /\ UNCHANGED tableVars
    /\ UNCHANGED registryVars
    /\ UNCHANGED dagVars

\* What earlier downloads (and whoever else has used the folders) can have
\* left behind when the pipeline starts: files of the dataset in the raw
\* folder, a sub-directory of it, a stray file directly under the stored
\* folder, the cleaned table of an earlier preparation run.
InitialFolders ==
    { rawFiles @@ dirs @@ stray @@ cleanFile :
        rawFiles \in { [ p \in { Path(RawRoot, <<>>, n) : n \in N } |-> RegularFile("v1", FirstSecond) ] :
                  N \in SUBSET RawFileNames },
        dirs \in { [ p \in { Path(RawRoot, <<>>, n) : n \in RawDirNames } |-> Directory(FirstSecond) ] },
        stray \in { [ p \in { Path(StoredBase, <<>>, n) : n \in {RawA} } |->
                        RegularFile("v1", FirstSecond) ] },
        cleanFile \in { [ p \in P |-> RegularFile("v1", FirstSecond) ] : P \in SUBSET {CleanData} } }

Init ==
    /\ tree = {}
    /\ rootExists = TRUE
    /\ extension = ".csv"
    /\ res = NoCall
    /\ now = FirstSecond
    /\ fs \in InitialFolders
    /\ writers = [ p \in { q \in DOMAIN fs : q.root = RawRoot } |-> {"ingestion"} ]
    /\ last = [op |-> "none", outcome |-> "none", at |-> FirstSecond, again |-> FALSE]
    /\ nops = 0
    /\ TablesIdle
    /\ RegistryIdle
    /\ DagIdle

Next ==
    \/ download_kaggle_dataset
    \/ store_data
    \/ partition_raw_data
    \/ transformation
    \/ Tick

Spec == Init /\ [][Next]_vars

----------------------------------------------------------------------------
(* Tables: what pandas holds of a CSV file *)

\* A cell.  A number is held as twice its value, since the median of
\* integers may be a half; a string is held as its rank among the levels of
\* its column in sorted order; a standardised number (x - mean) / std over m
\* values with sum S is held exactly, as v = m*x - S, n = m and
\* q = m * (sum of squares) - S*S, so that its square is v*v*(n-1) / (n*q).
Cell(k, v) == [k |-> k, v |-> v, n |-> 0, q |-> 0]
NaN == Cell("nan", 0)
Num(x) == Cell("num", 2 * x)
Str(i) == Cell("str", i)
Bool(b) == Cell("bool", IF b THEN 1 ELSE 0)
ZScore(dev, m, q) == [k |-> "z", v |-> dev, n |-> m, q |-> q]
isnull(c) == c.k = "nan"

\* a column of the file, and an indicator column made by get_dummies, whose
\* label is <name>_<level>
Col(name) == [name |-> name, level |-> 0]
Dummy(name, i) == [name |-> name, level |-> i]

Pick(s, I) ==
    LET F[k \in 0..Len(s)] ==
            IF k = 0 THEN <<>>
            ELSE IF k \in I THEN Append(F[k - 1], s[k]) ELSE F[k - 1]
    IN  F[Len(s)]
Sum(s) ==
    LET F[k \in 0..Len(s)] == IF k = 0 THEN 0 ELSE F[k - 1] + s[k]
    IN  F[Len(s)]
\* the k-th smallest of a sequence of integers
kth(s, k) ==
    CHOOSE v \in Range(s) : /\ Cardinality({ i \in DOMAIN s : s[i] < v }) < k
                            /\ Cardinality({ i \in DOMAIN s : s[i] <= v }) >= k
Sorted(S) == [ k \in 1..Cardinality(S) |->
                 CHOOSE v \in S : Cardinality({ w \in S : w < v }) = k - 1 ]

column(t, c) == [ i \in 1..Len(t.rows) |-> t.rows[i][c] ]
notna(s) == Pick(s, { i \in DOMAIN s : ~isnull(s[i]) })
values(s) == [ i \in DOMAIN s |-> s[i].v ]
with_column(t, c, cells, dt) ==
    [ t EXCEPT !.dtype = [ t.dtype EXCEPT ![c] = dt ],
               !.rows = [ i \in DOMAIN t.rows |-> [ t.rows[i] EXCEPT ![c] = cells[i] ] ] ]
with_rows(t, I) == [ t EXCEPT !.rows = Pick(t.rows, I) ]

\* the dtype pandas infers for the cells of a column
infer_dtype(cells) ==
    IF Len(cells) = 0 THEN "object"
    ELSE IF \A i \in DOMAIN cells : cells[i].k \in {"num", "nan", "z"}
         THEN IF \A i \in DOMAIN cells : cells[i].k = "num" /\ cells[i].v % 2 = 0
              THEN "int64" ELSE "float64"
    ELSE IF \A i \in DOMAIN cells : cells[i].k = "bool" THEN "bool"
    ELSE "object"

Raised(e) == [outcome |-> e, table |-> EmptyTable]
Returned(t) == [outcome |-> "ok", table |-> t]

\* pd.read_csv(file_path)
read_csv(file) ==
    CASE file.kind = "missing" -> Raised("FileNotFoundError")
      [] file.kind = "malformed" -> Raised("ParserError")
      [] file.kind = "csv" /\ Len(file.cols) = 0 -> Raised("EmptyDataError")
      [] OTHER ->
            Returned([cols |-> file.cols,
                      dtype |-> [ c \in Range(file.cols) |-> infer_dtype(column(file, c)) ],
                      rows |-> file.rows])

\* df.to_csv(path, index=False)
to_csv(t) == [kind |-> "csv", cols |-> t.cols, rows |-> t.rows]

----------------------------------------------------------------------------
(* prepare_data of data_preparation.py, step by step *)

cols_to_drop == { Col("EmployeeID"), Col("recorddate_key"), Col("birthdate_key"),
                  Col("orighiredate_key"), Col("terminationdate_key") }

\* df.drop(columns=...)
drop(t, D) ==
    LET keep == SelectSeq(t.cols, LAMBDA c : c \notin D)
    IN  [cols |-> keep,
         dtype |-> [ c \in Range(keep) |-> t.dtype[c] ],
         rows |-> [ i \in DOMAIN t.rows |-> [ c \in Range(keep) |-> t.rows[i][c] ] ]]

is_numeric(t, c) == t.dtype[c] \in {"float64", "int64"}

\* Series.median() of the values present (a sequence of integers, not empty)
median(s) ==
    IF Len(s) % 2 = 1 THEN kth(s, (Len(s) + 1) \div 2)
    ELSE (kth(s, Len(s) \div 2) + kth(s, Len(s) \div 2 + 1)) \div 2

\* Series.mode()[0]: the most frequent cell present, the smallest on a tie
mode0(s) ==
    LET count(c) == Cardinality({ i \in DOMAIN s : s[i] = c })
    IN  CHOOSE c \in Range(s) :
            \A d \in Range(s) : \/ count(c) > count(d)
                                \/ count(c) = count(d) /\ c.v <= d.v

\* df[col].mode()[0] of a column with no value present raises
fillna_raises(t) ==
    \E c \in Range(t.cols) : ~is_numeric(t, c) /\ Len(notna(column(t, c))) = 0

fillna(t, c) ==
    LET s == column(t, c)
        present == notna(s)
        fill == IF is_numeric(t, c)
                THEN IF Len(present) = 0 THEN NaN
                     ELSE Cell("num", median(values(present)))
                ELSE mode0(present)
    IN  with_column(t, c, [ i \in DOMAIN s |-> IF isnull(s[i]) THEN fill ELSE s[i] ],
                    t.dtype[c])

RECURSIVE fillna_loop(_, _, _)
fillna_loop(t, cols, i) ==
    IF i > Len(cols) THEN t ELSE fillna_loop(fillna(t, cols[i]), cols, i + 1)

\* df.drop_duplicates(): the first of equal rows is kept
drop_duplicates(t) ==
    with_rows(t, { i \in DOMAIN t.rows : \A j \in 1..(i - 1) : t.rows[j] # t.rows[i] })

\* four times Series.quantile(num / 4), by linear interpolation
quantile4(s, num) ==
    LET p == (Len(s) - 1) * num
        lo == p \div 4 + 1
        fr == p % 4
    IN  IF fr = 0 THEN 4 * kth(s, lo)
        ELSE 4 * kth(s, lo) + fr * (kth(s, lo + 1) - kth(s, lo))

\* the rows within [Q1 - 1.5 IQR, Q3 + 1.5 IQR]; no comparison with NaN holds
remove_outliers_iqr(t, c) ==
    LET s == column(t, c)
        present == values(notna(s))
    IN  IF Len(present) = 0 THEN with_rows(t, {})
        ELSE LET Q1 == quantile4(present, 1)
                 Q3 == quantile4(present, 3)
                 IQR == Q3 - Q1
                 lower_bound == 2 * Q1 - 3 * IQR
                 upper_bound == 2 * Q3 + 3 * IQR
             IN  with_rows(t, { i \in DOMAIN s : /\ ~isnull(s[i])
                                                 /\ 8 * s[i].v >= lower_bound
                                                 /\ 8 * s[i].v <= upper_bound })

numeric_cols(t) == SelectSeq(t.cols, LAMBDA c : is_numeric(t, c))

RECURSIVE outliers_loop(_, _, _)
outliers_loop(t, cols, i) ==
    IF i > Len(cols) THEN t
    ELSE outliers_loop(remove_outliers_iqr(t, cols[i]), cols, i + 1)

\* (df[col] - mean) / std when std != 0, which holds of a NaN std as well
\* (the std of fewer than two values); the constant 0 when std == 0
standardize(t, c) ==
    LET s == column(t, c)
        present == values(notna(s))
        m == Len(present)
        S == Sum(present)
        q == m * Sum([ i \in DOMAIN present |-> present[i] * present[i] ]) - S * S
    IN  IF m < 2
        THEN with_column(t, c, [ i \in DOMAIN s |-> NaN ], "float64")
        ELSE IF q = 0
        THEN with_column(t, c, [ i \in DOMAIN s |-> Num(0) ], "int64")
        ELSE with_column(t, c,
                 [ i \in DOMAIN s |-> IF isnull(s[i]) THEN NaN
                                      ELSE ZScore(m * s[i].v - S, m, q) ],
                 "float64")

RECURSIVE standardize_loop(_, _, _)
standardize_loop(t, cols, i) ==
    IF i > Len(cols) THEN t
    ELSE standardize_loop(standardize(t, cols[i]), cols, i + 1)

categorical_cols(t) == SelectSeq(t.cols, LAMBDA c : t.dtype[c] \in {"object", "category"})
nunique(t, c) == Cardinality(Range(notna(column(t, c))))

\* the thresholds of the cardinality tiers
OneHotMax == 20
LabelMax == 50

one_hot_cols(t) == SelectSeq(categorical_cols(t), LAMBDA c : nunique(t, c) <= OneHotMax)
label_enc_cols(t) ==
    SelectSeq(categorical_cols(t),
              LAMBDA c : nunique(t, c) > OneHotMax /\ nunique(t, c) <= LabelMax)
drop_cols(t) == SelectSeq(categorical_cols(t), LAMBDA c : nunique(t, c) > LabelMax)

\* the levels of a column in sorted order
levels(t, c) == Sorted({ x.v : x \in Range(notna(column(t, c))) })

\* the indicator columns of a column with drop_first=False: one per level
dummies_keep_first(t, c) ==
    LET l == levels(t, c)
    IN  [ k \in 1..Len(l) |-> Dummy(c.name, l[k]) ]

\* the indicator columns of a column: one per level, without the first
dummies(t, c) ==
    LET l == levels(t, c)
    IN  [ k \in 1..(Len(l) - 1) |-> Dummy(c.name, l[k + 1]) ]

RECURSIVE dummies_loop(_, _, _)
dummies_loop(t, cols, i) ==
    IF i > Len(cols) THEN <<>>
    ELSE dummies(t, cols[i]) \o dummies_loop(t, cols, i + 1)

\* pd.get_dummies(df, columns=cols, drop_first=True): the other columns, then
\* the indicator columns
get_dummies(t, cols) ==
    LET rest == SelectSeq(t.cols, LAMBDA c : c \notin Range(cols))
        new == dummies_loop(t, cols, 1)
        all == rest \o new
    IN  [cols |-> all,
         dtype |-> [ c \in Range(all) |-> IF c.level = 0 THEN t.dtype[c] ELSE "bool" ],
         rows |-> [ i \in DOMAIN t.rows |->
                      [ c \in Range(all) |->
                          IF c.level = 0 THEN t.rows[i][c]
                          ELSE Bool(t.rows[i][Col(c.name)].v = c.level) ] ]]

\* LabelEncoder().fit_transform(df[col]): the rank of the level, from 0
fit_transform(t, c) ==
    LET s == column(t, c)
        l == levels(t, c)
    IN  with_column(t, c,
            [ i \in DOMAIN s |-> Num(CHOOSE k \in 0..(Len(l) - 1) : l[k + 1] = s[i].v) ],
            "int64")

RECURSIVE fit_transform_loop(_, _, _)
fit_transform_loop(t, cols, i) ==
    IF i > Len(cols) THEN t
    ELSE fit_transform_loop(fit_transform(t, cols[i]), cols, i + 1)

\* steps 6: the three treatments of the categorical columns
encode_categoricals(t) ==
    LET dropped == IF Len(drop_cols(t)) > 0 THEN drop(t, Range(drop_cols(t))) ELSE t
        one_hot == IF Len(one_hot_cols(t)) > 0 THEN get_dummies(dropped, one_hot_cols(t))
                   ELSE dropped
    IN  fit_transform_loop(one_hot, label_enc_cols(t), 1)

\* the table before the categorical columns are treated (steps 1 to 5)
clean_numeric(t0) ==
    LET t1 == drop(t0, cols_to_drop)
        t2 == fillna_loop(t1, t1.cols, 1)
        t3 == drop_duplicates(t2)
        t4 == outliers_loop(t3, numeric_cols(t3), 1)
    IN  standardize_loop(t4, numeric_cols(t3), 1)

prepare_data(file) ==
    LET r == read_csv(file)
    IN  IF r.outcome # "ok" THEN r
        ELSE IF fillna_raises(drop(r.table, cols_to_drop)) THEN Raised("KeyError")
        ELSE Returned(encode_categoricals(clean_numeric(r.table)))

----------------------------------------------------------------------------

(* One pass over a raw file: prepare_data, then what follows it *)

STATUS_TERMINATED == Col("STATUS_TERMINATED")
City == Col("city")
TerminationDate == Col("terminationdate_key")
Age == Col("Age")
EmployeeNumber == Col("EmployeeNumber")

\* the columns of a raw file and the cells each may hold
Schemas ==
    { [cols |-> <<STATUS_TERMINATED, City>>,
       cells |-> (STATUS_TERMINATED :> {Num(0), Num(1), NaN}) @@ (City :> {Str(1), Str(2), NaN})],
      [cols |-> <<STATUS_TERMINATED>>,
       cells |-> (STATUS_TERMINATED :> {Num(0), Num(1), NaN})],
      [cols |-> <<City>>,
       cells |-> (City :> {Str(1), Str(2), NaN})],
      [cols |-> <<City, TerminationDate>>,
       cells |-> (City :> {Str(1), Str(2), NaN}) @@ (TerminationDate :> {Str(1)})],
      [cols |-> <<Age>>,
       cells |-> (Age :> {Num(17), Num(30), NaN})],
      [cols |-> <<Age>>,
       cells |-> (Age :> {Str(1), Str(2)})],
      [cols |-> <<EmployeeNumber>>,
       cells |-> (EmployeeNumber :> {Num(1), Num(2)})] }

RowsOf(schema) ==
    { r \in [ Range(schema.cols) -> UNION { schema.cells[c] : c \in Range(schema.cols) } ] :
        \A c \in Range(schema.cols) : r[c] \in schema.cells[c] }

Csv(cols, rows) == [kind |-> "csv", cols |-> cols, rows |-> rows]

\* the files of at most MaxRows rows
SmallFiles ==
    UNION { { Csv(schema.cols, rows) :
                rows \in UNION { [ 1..m -> RowsOf(schema) ] : m \in 0..MaxRows } } :
            schema \in Schemas }

\* the files whose categorical column has as many levels as rows, around the
\* two thresholds; the label is 0 throughout, alternates, or is 1 in the
\* first row only
WideCounts == { m \in {OneHotMax, OneHotMax + 1, LabelMax, LabelMax + 1} : m <= MaxLevels }
LabelPatterns == {"zeros", "alternate", "first"}
Label(pattern, i) ==
    CASE pattern = "zeros" -> Num(0)
      [] pattern = "alternate" -> Num(i % 2)
      [] OTHER -> IF i = 1 THEN Num(1) ELSE Num(0)
WideFiles ==
    { Csv(<<STATUS_TERMINATED, City>>,
          [ i \in 1..m |-> (STATUS_TERMINATED :> Label(pattern, i)) @@ (City :> Str(i)) ]) :
        m \in WideCounts, pattern \in LabelPatterns }

\* astype(int) of a cell: a float is cut towards zero
astype_int(c) ==
    CASE c.k = "bool" -> c.v
      [] c.k = "num" -> IF c.v >= 0 THEN c.v \div 2 ELSE -((-c.v) \div 2)
      [] OTHER ->
            LET k == CHOOSE j \in 0..c.n :
                        /\ j * j * c.n * c.q <= c.v * c.v * (c.n - 1)
                        /\ (j + 1) * (j + 1) * c.n * c.q > c.v * c.v * (c.n - 1)
            IN  IF c.v >= 0 THEN k ELSE -k

\* Series.astype(int) raises on a missing value and on text
astype_int_raises(s) == \E i \in DOMAIN s : s[i].k \in {"nan", "str"}

\* load_and_prepare_data(data_path) of model_building.py
load_and_prepare_data(file) ==
    LET r == read_csv(file)
        df == r.table
    IN  IF r.outcome # "ok"
        THEN [outcome |-> r.outcome, returned |-> "none", X |-> EmptyTable, y |-> <<>>]
        ELSE IF STATUS_TERMINATED \in Range(df.cols)
        THEN IF astype_int_raises(column(df, STATUS_TERMINATED))
             THEN [outcome |-> "ok", returned |-> "None, None", X |-> EmptyTable, y |-> <<>>]
             ELSE [outcome |-> "ok", returned |-> "X, y",
                   X |-> drop(df, {STATUS_TERMINATED}),
                   y |-> [ i \in DOMAIN df.rows |-> astype_int(df.rows[i][STATUS_TERMINATED]) ]]
        ELSE [outcome |-> "ok", returned |-> "None, None", X |-> EmptyTable, y |-> <<>>]

\* the handler of validate_data, had it started the report afresh
on_exception_reset(rep, e) ==
    [ NoReport EXCEPT !.outcome = "returned", !.keys = {"error"}, !.error = e ]

\* except Exception as e: report['error'] = str(e)
on_exception(rep, e) ==
    [ rep EXCEPT !.outcome = "returned", !.keys = rep.keys \cup {"error"}, !.error = e ]

\* df.isnull().sum(), the columns with a missing value only
missing_values(df) ==
    LET count(c) == Cardinality({ i \in DOMAIN df.rows : isnull(df.rows[i][c]) })
    IN  [ c \in { d \in Range(df.cols) : count(d) > 0 } |-> count(c) ]

\* df.duplicated().sum(): the rows equal to an earlier row
duplicated_sum(df) ==
    Cardinality({ i \in DOMAIN df.rows : \E j \in 1..(i - 1) : df.rows[j] = df.rows[i] })

\* (df['Age'] < 18) | (df['Age'] > 65): text cannot be compared with a number
age_compare_raises(df) == \E i \in DOMAIN df.rows : df.rows[i][Age].k = "str"
invalid_age_rows(df) ==
    Cardinality({ i \in DOMAIN df.rows :
                    /\ ~isnull(df.rows[i][Age])
                    /\ \/ df.rows[i][Age].v < 2 * 18
                       \/ df.rows[i][Age].v > 2 * 65 })

\* validate_data(file_path) of data_validation.py
validate_data(file) ==
    LET r == read_csv(file)
        df == r.table
        shape == [ NoReport EXCEPT !.outcome = "returned",
                       !.keys = {"total_rows", "total_columns", "missing_values",
                                 "duplicate_rows"},
                       !.total_rows = Len(df.rows),
                       !.total_columns = Len(df.cols),
                       !.missing_values = missing_values(df),
                       !.duplicate_rows = duplicated_sum(df) ]
        aged == IF Age \in Range(df.cols)
                THEN [ shape EXCEPT !.keys = shape.keys \cup {"invalid_age_rows"},
                                    !.invalid_age_rows = invalid_age_rows(df) ]
                ELSE shape
    IN  IF r.outcome # "ok" THEN on_exception(NoReport, r.outcome)
        ELSE IF Age \in Range(df.cols) /\ age_compare_raises(df)
        THEN on_exception(shape, "TypeError")
        ELSE IF EmployeeNumber \in Range(df.cols)
        THEN [ aged EXCEPT !.keys = aged.keys \cup {"employee_number_unique"},
                           !.employee_number_unique =
                               (nunique(df, EmployeeNumber) = Len(df.rows)) ]
        ELSE aged

RawFiles ==
    SmallFiles \cup WideFiles
        \cup { NoFile, [kind |-> "malformed", cols |-> <<>>, rows |-> <<>>] }

TableInit ==
    /\ raw \in RawFiles
    /\ clean = NoRun
    /\ ready = NoReady
    /\ report = NoReport
    /\ tree = {}
    /\ rootExists = TRUE
    /\ extension = ".csv"
    /\ res = NoCall
    /\ PipelineInit
    /\ RegistryIdle
    /\ DagIdle

\* the preparation stage on the raw file
preparation ==
    /\ clean.outcome = "none"
    /\ clean' = prepare_data(raw)
    /\ UNCHANGED <<raw, ready, report>>
    /\ UNCHANGED resolverVars
    /\ UNCHANGED pipelineVars
    /\ UNCHANGED registryVars
    /\ UNCHANGED dagVars

\* clean_data.csv as the preparation run left it
clean_data_csv == IF clean.outcome = "ok" THEN to_csv(clean.table) ELSE NoFile

\* the model building stage reads clean_data.csv
model_building_load ==
    /\ clean.outcome # "none"
    /\ ready.outcome = "none"
    /\ ready' = load_and_prepare_data(clean_data_csv)
    /\ UNCHANGED <<raw, clean, report>>
    /\ UNCHANGED resolverVars
    /\ UNCHANGED pipelineVars
    /\ UNCHANGED registryVars
    /\ UNCHANGED dagVars

\* the validation stage on the raw file
validation ==
    /\ report.outcome = "none"
    /\ report' = validate_data(raw)
    /\ UNCHANGED <<raw, clean, ready>>
    /\ UNCHANGED resolverVars
    /\ UNCHANGED pipelineVars
    /\ UNCHANGED registryVars
    /\ UNCHANGED dagVars

TableNext ==
    \/ validation
    \/ preparation
    \/ model_building_load

SpecTable == TableInit /\ [][TableNext]_vars

----------------------------------------------------------------------------

(* The feature registry of feature_store.py *)

FeatureNames == {"age", "length_of_service"}
\* the names asked for: the features and one that is never registered
QueryNames == FeatureNames \cup {"department_name"}
Descriptions == {"Normalized age", "Age in years"}
Sources == {"Transformed employee attrition data"}
Versions == {"v1.0", "v1.1"}

\* json.dump(feature_store, f) and json.load(f): an object whose keys and
\* values are strings is read back as it was written
json_dump(object) == [exists |-> TRUE, object |-> object]
json_load(file) == file.object

\* register_feature, had it started from an empty object on every call
load_store_fresh(file) == <<>>

\* the object register_feature starts from
load_store(file) == IF file.exists THEN json_load(file) ELSE <<>>

Metadata(description, source, version) ==
    [description |-> description, source |-> source, version |-> version]

\* register_feature(feature_name, description, source, version)
register_feature(file, feature_name, description, source, version) ==
    json_dump((feature_name :> Metadata(description, source, version)) @@ load_store(file))

\* get_feature_metadata(feature_name): feature_store.get(feature_name), or
\* None without a file
get_feature_metadata(file, feature_name) ==
    IF file.exists /\ feature_name \in DOMAIN json_load(file)
    THEN [op |-> "get_feature_metadata", name |-> feature_name, found |-> TRUE,
          record |-> json_load(file)[feature_name], all |-> <<>>]
    ELSE [op |-> "get_feature_metadata", name |-> feature_name, found |-> FALSE,
          record |-> NoRecord, all |-> <<>>]

\* list_features(): the whole object, or {} without a file
list_features(file) ==
    [op |-> "list_features", name |-> "", found |-> FALSE, record |-> NoRecord,
     all |-> IF file.exists THEN json_load(file) ELSE <<>>]

RegistryInit ==
    /\ RegistryIdle
    /\ tree = {}
    /\ rootExists = TRUE
    /\ extension = ".csv"
    /\ res = NoCall
    /\ PipelineInit
    /\ TablesIdle
    /\ DagIdle

Register ==
    /\ Len(calls) < MaxCalls
    /\ \E n \in FeatureNames, d \in Descriptions, s \in Sources, v \in Versions :
         /\ registry' = register_feature(registry, n, d, s, v)
         /\ calls' = Append(calls, [name |-> n, metadata |-> Metadata(d, s, v)])
    /\ answer' = NoAnswer
    /\ UNCHANGED inflight
    /\ UNCHANGED <<resolverVars, pipelineVars, tableVars, dagVars>>

Get ==
    /\ \E n \in QueryNames : answer' = get_feature_metadata(registry, n)
    /\ UNCHANGED <<registry, calls, inflight>>
    /\ UNCHANGED <<resolverVars, pipelineVars, tableVars, dagVars>>

List ==
    /\ answer' = list_features(registry)
    /\ UNCHANGED <<registry, calls, inflight>>
    /\ UNCHANGED <<resolverVars, pipelineVars, tableVars, dagVars>>

RegistryNext == Register \/ Get \/ List

SpecRegistry == RegistryInit /\ [][RegistryNext]_vars

----------------------------------------------------------------------------

(* Two callers of register_feature at once.  A call is three steps on the  *)
(* file: it reads the document, opens the file for writing, which empties  *)
(* it, and writes its own document from the file's beginning when the file *)
(* is closed (the text is far shorter than the file's buffer).             *)

Callers == {1, 2}
Other(i) == CHOOSE j \in Callers : j # i

\* the length of json.dumps(object, indent=4): "{}" for the empty object,
\* otherwise 88 characters of layout around each entry's four strings
RECURSIVE entries_size(_, _)
entries_size(object, names) ==
    IF names = {} THEN 0
    ELSE LET n == CHOOSE x \in names : TRUE
         IN  88 + Len(n) + Len(object[n].description) + Len(object[n].source)
                + Len(object[n].version) + entries_size(object, names \ {n})
json_size(object) == 2 + entries_size(object, DOMAIN object)

\* feature_store.json as bytes: no file, a JSON document, or text that
\* json.load rejects (an empty file, a document followed by more text)
NoDocument == [exists |-> FALSE, object |-> <<>>, size |-> 0, valid |-> FALSE]
Document(object) ==
    [exists |-> TRUE, object |-> object, size |-> json_size(object), valid |-> TRUE]
Rejected(size) == [exists |-> TRUE, object |-> <<>>, size |-> size, valid |-> FALSE]

\* open(FEATURE_STORE_PATH, 'w'): the file is created or cut to nothing
open_w(file) == Rejected(0)

\* json.dump and the close: the text is written from offset 0 over what the
\* file holds by then; a longer text written meanwhile keeps its end
write_from_start(file, object) ==
    IF json_size(object) >= file.size THEN Document(object) ELSE Rejected(file.size)

IdleCall == [pc |-> "idle", name |-> "", metadata |-> NoRecord,
             feature_store |-> <<>>, other |-> "idle"]

\* the document of a call, had it held the call's feature alone
updated_alone(call) == (call.name :> call.metadata)

\* feature_store[feature_name] = {...} on the object the call loaded
updated(call) == (call.name :> call.metadata) @@ call.feature_store

\* the call starts: os.path.exists, open(..., 'r') and json.load, which
\* raises on text that is no JSON document
race_load(i) ==
    /\ inflight[i].pc = "idle"
    /\ \E n \in FeatureNames, d \in Descriptions, s \in Sources, v \in Versions :
         /\ n # inflight[Other(i)].name
         /\ inflight' = [ inflight EXCEPT ![i] =
              [pc |-> IF registry.exists /\ ~registry.valid
                      THEN "JSONDecodeError" ELSE "loaded",
               name |-> n, metadata |-> Metadata(d, s, v),
               feature_store |-> IF registry.exists /\ ~registry.valid
                                 THEN <<>> ELSE load_store(registry),
               other |-> inflight[Other(i)].pc] ]
    /\ UNCHANGED <<registry, calls, answer>>
    /\ UNCHANGED <<resolverVars, pipelineVars, tableVars, dagVars>>

race_open(i) ==
    /\ inflight[i].pc = "loaded"
    /\ registry' = open_w(registry)
    /\ inflight' = [ inflight EXCEPT ![i].pc = "opened" ]
    /\ UNCHANGED <<calls, answer>>
    /\ UNCHANGED <<resolverVars, pipelineVars, tableVars, dagVars>>

race_dump(i) ==
    /\ inflight[i].pc = "opened"
    /\ registry' = write_from_start(registry, updated(inflight[i]))
    /\ inflight' = [ inflight EXCEPT ![i].pc = "done" ]
    /\ calls' = Append(calls, [name |-> inflight[i].name, metadata |-> inflight[i].metadata])
    /\ UNCHANGED answer
    /\ UNCHANGED <<resolverVars, pipelineVars, tableVars, dagVars>>

\* what the registry holds before the two calls
EarlierObjects ==
    { <<>>,
      ("department_name" :> Metadata("Encoded department", "Transformed employee attrition data", "v1.0")),
      ("age" :> Metadata("Age in years", "Transformed employee attrition data", "v1.0")) }

RaceInit ==
    /\ registry \in {NoDocument} \cup { Document(o) : o \in EarlierObjects }
    /\ calls = <<>>
    /\ answer = NoAnswer
    /\ inflight = [ i \in Callers |-> IdleCall ]
    /\ tree = {}
    /\ rootExists = TRUE
    /\ extension = ".csv"
    /\ res = NoCall
    /\ PipelineInit
    /\ TablesIdle
    /\ DagIdle

RaceNext ==
    \/ \E i \in Callers : race_load(i)
    \/ \E i \in Callers : race_open(i)
    \/ \E i \in Callers : race_dump(i)

SpecRace == RaceInit /\ [][RaceNext]_vars

----------------------------------------------------------------------------

(* One run of the DAG of pipeline_dag.py: each task runs its stage's main  *)
(* and succeeds when the process exits with 0.                             *)

\* default_args['retries']
retries == 1

ReportFile == Path("logs", <<>>, MkName("data_quality_report", <<>>, ".csv", FALSE))
ModelFile == Path("models", <<>>, MkName("churn_model", <<>>, ".pkl", FALSE))
Histograms == Path("data/processed/EDA", <<>>, MkName("numeric_histograms", <<>>, ".png", FALSE))
Boxplots == Path("data/processed/EDA", <<>>, MkName("numeric_boxplots", <<>>, ".png", FALSE))
Heatmap == Path("data/processed/EDA", <<>>, MkName("correlation_heatmap", <<>>, ".png", FALSE))

\* what the dataset may hold: a 0/1 label and a categorical column, a
\* categorical column alone, a header without rows
Datasets ==
    { Csv(<<STATUS_TERMINATED, City>>,
          << (STATUS_TERMINATED :> Num(0)) @@ (City :> Str(1)),
             (STATUS_TERMINATED :> Num(0)) @@ (City :> Str(2)),
             (STATUS_TERMINATED :> Num(1)) @@ (City :> Str(3)) >>),
      Csv(<<City>>, << (City :> Str(1)), (City :> Str(2)) >>),
      Csv(<<City>>, <<>>) }

Artifact(kind, what) == [kind |-> kind, cols |-> <<>>, rows |-> what]

\* the predecessor of a task in the chain of dependencies
Position(t) == CHOOSE i \in DOMAIN TaskIds : TaskIds[i] = t

\* starting a task whatever its upstream task has done
upstream_ignored(t) == TRUE

\* trigger rule all_success: the upstream task has succeeded
upstream_success(t) ==
    IF Position(t) = 1 THEN TRUE ELSE tasks[TaskIds[Position(t) - 1]].state = "success"

\* the scheduler starts a task, for the first time or for its retry
Start ==
    /\ \E t \in Range(TaskIds) :
         /\ tasks[t].state \in {"none", "up_for_retry"}
         /\ upstream_success(t)
         /\ tasks' = [ tasks EXCEPT ![t] = [state |-> "running", tries |-> @.tries + 1] ]
    /\ trail' = <<>>
    /\ UNCHANGED <<resolverVars, pipelineVars, tableVars, registryVars>>

\* the process of a task has ended with this exit code
Finish(t, code, steps) ==
    /\ tasks' = [ tasks EXCEPT ![t].state =
                    IF code = 0 THEN "success"
                    ELSE IF tasks[t].tries <= retries THEN "up_for_retry"
                    ELSE "failed" ]
    /\ trail' = steps

Running(t) == tasks[t].state = "running"

Step(t, what, cli, code) == [task |-> t, step |-> what, cli |-> cli, exit |-> code]

\* the files under a root as find_latest_file meets them
FilesUnder(f, root) ==
    { [dir |-> p.part, name |-> p.name, mtime |-> f[p].mtime] :
        p \in { q \in DOMAIN f : q.root = root /\ f[q].kind = "file" } }
PathOf(root, file) == Path(root, file.dir, file.name)

\* the main of data_ingestion.py: the download, whose failure is logged and
\* not raised again, then store_data
ingestion_task ==
    /\ Running("data_ingestion")
    /\ \E code \in {0, 1} :
        \E f1 \in IF code = 0
                  THEN { Write(fs, Path(RawRoot, <<>>, n), RegularFile(d, now)) :
                            n \in RawFileNames, d \in Datasets }
                  ELSE { fs } :
        LET f0 == makedirs_exist_ok(f1, StoredKaggle, <<Day(now)>>)
            download == Step("data_ingestion", "kaggle datasets download", TRUE, code)
        IN  \E jobs \in { store_jobs(f0, order, now) :
                            order \in SeqsOver(listdir(f1, RawRoot, <<>>)) } :
              \/ /\ fs' = store_cleanup(copy_loop(f0, jobs, 1, 0, "untouched", now))
                 /\ Finish("data_ingestion", 0,
                           <<download, Step("data_ingestion", "store_data", FALSE, 0)>>)
              \/ \E k \in 1..Len(jobs) :
                   /\ fs' = copy_loop(f0, jobs, 1, k, "untouched", now)
                   /\ Finish("data_ingestion", 1,
                             <<download, Step("data_ingestion", "store_data", FALSE, 1)>>)
    /\ UNCHANGED <<now, writers, last, nops>>
    /\ UNCHANGED <<resolverVars, tableVars, registryVars>>

\* the main of raw_data_storage.py
raw_data_storage_task ==
    /\ Running("raw_data_storage")
    /\ LET f0 == makedirs_exist_ok(fs, StoredBase, <<>>) IN
       \E jobs \in { partition_jobs(f0, order) :
                       order \in SeqsOver(listdir(fs, RawRoot, <<>>)) } :
          \/ /\ fs' = partition_loop(f0, jobs, 1, 0, "untouched", now)
             /\ Finish("raw_data_storage", 0,
                       <<Step("raw_data_storage", "partition_raw_data", FALSE, 0)>>)
          \/ \E k \in 1..Len(jobs) :
               /\ fs' = partition_loop(f0, jobs, 1, k, "untouched", now)
               /\ Finish("raw_data_storage", 1,
                         <<Step("raw_data_storage", "partition_raw_data", FALSE, 1)>>)
    /\ UNCHANGED <<now, writers, last, nops>>
    /\ UNCHANGED <<resolverVars, tableVars, registryVars>>

\* the main of data_validation.py after the resolver: without a file it
\* prints and ends, with one it validates it and saves the report
validation_main(f, latest_file, t) ==
    IF latest_file = None THEN f
    ELSE LET file == CHOOSE x \in latest_file : TRUE
             quality_report == validate_data(f[PathOf(RawRoot, file)].content)
         IN  Write(f, ReportFile, RegularFile(Artifact("report", <<quality_report>>), t))

validation_task ==
    /\ Running("data_validation")
    /\ \E order \in os_walk(TRUE, FilesUnder(fs, RawRoot)) :
         LET latest_file == find_latest_file_validation(order, ".csv")
         IN  /\ fs' = validation_main(fs, latest_file, now)
             /\ Finish("data_validation", 0,
                       <<Step("data_validation", "find_latest_file", FALSE, 0)>>
                       \o IF latest_file = None THEN <<>>
                          ELSE <<Step("data_validation", "validate_data", FALSE, 0)>>)
    /\ UNCHANGED <<now, writers, last, nops>>
    /\ UNCHANGED <<resolverVars, tableVars, registryVars>>

\* the plots prepare_data saves after the cleaned table
eda_plots(f, file, t) ==
    LET n == Len(numeric_cols(drop(read_csv(file).table, cols_to_drop)))
        png == RegularFile(Artifact("png", <<>>), t)
        two == IF n > 0 THEN Write(Write(f, Histograms, png), Boxplots, png) ELSE f
    IN  IF n > 1 THEN Write(two, Heatmap, png) ELSE two

\* the main of data_preparation.py, had it saved a table in any case
preparation_main_always(f, latest_file, t) ==
    Write(f, CleanData, RegularFile(to_csv(EmptyTable), t))

\* the main of data_preparation.py after the resolver: without a file it
\* prints and ends; with one, prepare_data saves clean_data.csv and the
\* plots, unless it raises before
preparation_main(f, latest_file, t) ==
    IF latest_file = None THEN f
    ELSE LET file == f[PathOf(StoredKaggle, CHOOSE x \in latest_file : TRUE)].content
             r == prepare_data(file)
         IN  IF r.outcome = "ok"
             THEN eda_plots(Write(f, CleanData, RegularFile(to_csv(r.table), t)), file, t)
             ELSE f

preparation_exit(f, latest_file) ==
    IF latest_file = None THEN 0
    ELSE IF prepare_data(f[PathOf(StoredKaggle, CHOOSE x \in latest_file : TRUE)].content).outcome = "ok"
         THEN 0 ELSE 1

preparation_task ==
    /\ Running("data_preparation")
    /\ \E order \in os_walk(TRUE, FilesUnder(fs, StoredKaggle)) :
         LET latest_file == find_latest_file_preparation(order, ".csv")
             code == preparation_exit(fs, latest_file)
         IN  /\ fs' = preparation_main(fs, latest_file, now)
             /\ Finish("data_preparation", code,
                       <<Step("data_preparation", "find_latest_file", FALSE, 0)>>
                       \o IF latest_file = None THEN <<>>
                          ELSE <<Step("data_preparation", "prepare_data", FALSE, code)>>)
    /\ UNCHANGED <<now, writers, last, nops>>
    /\ UNCHANGED <<resolverVars, tableVars, registryVars>>

\* the main of data_transformation.py
transformation_task ==
    /\ Running("data_transformation")
    /\ IF CleanData \in DOMAIN fs
       THEN /\ fs' = store_transformed_data(fs, fs[CleanData].content, FeaturesDb, now)
            /\ Finish("data_transformation", 0,
                      <<Step("data_transformation", "store_transformed_data", FALSE, 0)>>)
       ELSE /\ fs' = fs
            /\ Finish("data_transformation", 0, <<>>)
    /\ UNCHANGED <<now, writers, last, nops>>
    /\ UNCHANGED <<resolverVars, tableVars, registryVars>>

\* the main of feature_store.py: three features registered, then listed and
\* one of them looked up
MainFeatures == <<"age", "length_of_service", "department_name">>
RECURSIVE register_all(_, _, _)
register_all(file, names, i) ==
    IF i > Len(names) THEN file
    ELSE register_all(register_feature(file, names[i], "Normalized age",
                                       "Transformed employee attrition data", "v1.0"),
                      names, i + 1)

feature_store_task ==
    /\ Running("feature_store")
    /\ registry' = register_all(registry, MainFeatures, 1)
    /\ calls' = calls \o
         [ i \in DOMAIN MainFeatures |->
             [name |-> MainFeatures[i],
              metadata |-> Metadata("Normalized age",
                                    "Transformed employee attrition data", "v1.0")] ]
    /\ answer' = get_feature_metadata(registry', "age")
    /\ UNCHANGED inflight
    /\ Finish("feature_store", 0, <<Step("feature_store", "register_feature", FALSE, 0)>>)
    /\ UNCHANGED <<resolverVars, pipelineVars, tableVars>>

\* the commands of data_versioning.py in order: dvc init when there is no
\* .dvc, dvc add for each data path that exists, then git add, commit, tag
Commands(init, there) ==
    (IF init THEN <<"dvc init">> ELSE <<>>)
    \o (IF there THEN <<"dvc add data/raw", "dvc add data/processed">> ELSE <<>>)
    \o <<"git add .", "git commit", "git tag v1.0">>

\* run_command returns the return code and no caller looks at it: every
\* command is run whatever the ones before it returned
run_commands(cmds, codes) ==
    [ i \in DOMAIN cmds |-> Step("data_versioning", cmds[i], TRUE, codes[i]) ]

versioning_task ==
    /\ Running("data_versioning")
    /\ \E init \in BOOLEAN, there \in BOOLEAN :
         \E codes \in [ DOMAIN Commands(init, there) -> {0, 1} ] :
            Finish("data_versioning", 0, run_commands(Commands(init, there), codes))
    /\ UNCHANGED <<resolverVars, pipelineVars, tableVars, registryVars>>

\* train_and_evaluate_model raises for certain when there are fewer than two
\* rows, a single class or a missing feature; otherwise it depends on the
\* split
training_must_raise(r) ==
    \/ Len(r.y) < 2
    \/ Cardinality(Range(r.y)) < 2
    \/ \E i \in DOMAIN r.X.rows : \E c \in Range(r.X.cols) : isnull(r.X.rows[i][c])

\* the main of model_building.py
model_building_task ==
    /\ Running("model_building")
    /\ LET r == load_and_prepare_data(IF CleanData \in DOMAIN fs
                                      THEN fs[CleanData].content ELSE NoFile)
           load == Step("model_building", "load_and_prepare_data", FALSE,
                        IF r.outcome = "ok" THEN 0 ELSE 1)
       IN  /\ ready' = r
           /\ IF r.outcome # "ok"
              THEN fs' = fs /\ Finish("model_building", 1, <<load>>)
              ELSE IF r.returned = "None, None"
              THEN fs' = fs /\ Finish("model_building", 0, <<load>>)
              ELSE \/ /\ fs' = fs
                      /\ Finish("model_building", 1,
                                <<load, Step("model_building", "train_and_evaluate_model", FALSE, 1)>>)
                   \/ /\ ~training_must_raise(r)
                      /\ fs' = Write(fs, ModelFile, RegularFile(Artifact("pkl", <<>>), now))
                      /\ Finish("model_building", 0,
                                <<load, Step("model_building", "train_and_evaluate_model", FALSE, 0),
                                  Step("model_building", "save_model", FALSE, 0)>>)
    /\ UNCHANGED <<now, writers, last, nops>>
    /\ UNCHANGED <<raw, clean, report>>
    /\ UNCHANGED <<resolverVars, registryVars>>

\* what the folders hold when the run starts: nothing, or a file of the
\* dataset from an earlier download
DagFolders ==
    { <<>> } \cup { (Path(RawRoot, <<>>, RawA) :> RegularFile(d, FirstSecond)) : d \in Datasets }

DagInit ==
    /\ DagIdle
    /\ tree = {}
    /\ rootExists = TRUE
    /\ extension = ".csv"
    /\ res = NoCall
    /\ now = FirstSecond
    /\ fs \in DagFolders
    /\ writers = <<>>
    /\ last = [op |-> "none", outcome |-> "none", at |-> FirstSecond, again |-> FALSE]
    /\ nops = 0
    /\ TablesIdle
    /\ RegistryIdle

DagNext ==
    \/ Start
    \/ ingestion_task
    \/ raw_data_storage_task
    \/ validation_task
    \/ preparation_task
    \/ transformation_task
    \/ feature_store_task
    \/ versioning_task
    \/ model_building_task

SpecDag == DagInit /\ [][DagNext]_vars

----------------------------------------------------------------------------

(* One run from ingestion to preparation.  What a file holds stands for   *)
(* the version of the dataset it was made from: the report is the report  *)
(* on that version, the cleaned table the cleaning of that version.       *)

\* what the file find_latest_file returned holds
Resolved(f, root, latest_file) ==
    IF latest_file = None THEN {}
    ELSE { f[PathOf(root, x)].content : x \in latest_file }

\* the main of data_validation.py: the newest CSV under data/raw/kaggle is
\* validated and the report on it saved
validate_latest ==
    /\ last.op = "partition_raw_data" /\ last.outcome = "ok"
    /\ \E order \in os_walk(TRUE, FilesUnder(fs, RawRoot)) :
         LET latest_file == find_latest_file_validation(order, ".csv") IN
           /\ res' = [by |-> "validation", order |-> order, outcome |-> "returned",
                      value |-> latest_file]
           /\ fs' = IF latest_file = None THEN fs
                    ELSE LET c == CHOOSE x \in Resolved(fs, RawRoot, latest_file) : TRUE
                         IN  Write(fs, ReportFile, RegularFile(c, now))
           /\ writers' = IF latest_file = None THEN writers
                         ELSE Wrote(writers, ReportFile, "validation")
    /\ Ran("validate_data", "ok")
    /\ UNCHANGED <<now, tree, rootExists, extension>>
    /\ UNCHANGED tableVars
    /\ UNCHANGED registryVars
    /\ UNCHANGED dagVars

\* the main of data_preparation.py: the newest CSV under
\* data/stored/raw/kaggle is cleaned and saved as clean_data.csv
prepare_latest_file ==
    /\ last.op = "validate_data" /\ last.outcome = "ok"
    /\ \E order \in os_walk(TRUE, FilesUnder(fs, StoredKaggle)) :
         LET latest_file == find_latest_file_preparation(order, ".csv") IN
           /\ res' = [by |-> "preparation", order |-> order, outcome |-> "returned",
                      value |-> latest_file]
           /\ fs' = IF latest_file = None THEN fs
                    ELSE LET c == CHOOSE x \in Resolved(fs, StoredKaggle, latest_file) : TRUE
                         IN  Write(fs, CleanData, RegularFile(c, now))
           /\ writers' = IF latest_file = None THEN writers
                         ELSE Wrote(writers, CleanData, "preparation")
    /\ Ran("prepare_data", "ok")
    /\ UNCHANGED <<now, tree, rootExists, extension>>
    /\ UNCHANGED tableVars
    /\ UNCHANGED registryVars
    /\ UNCHANGED dagVars

\* What the raw folder holds when a run starts: files of the dataset that
\* earlier downloads left, each of one version and written at some second.
HandoffFolders ==
    UNION { [ { Path(RawRoot, <<>>, n) : n \in N } ->
                { RegularFile(c, t) : c \in Contents, t \in 1..FirstSecond } ] :
            N \in SUBSET RawFileNames }

HandoffInit ==
    /\ tree = {}
    /\ rootExists = TRUE
    /\ extension = ".csv"
    /\ res = NoCall
    /\ now = FirstSecond
    /\ fs \in HandoffFolders
    /\ writers = [ p \in DOMAIN fs |-> {"ingestion"} ]
    /\ last = [op |-> "none", outcome |-> "none", at |-> FirstSecond, again |-> FALSE]
    /\ nops = 0
    /\ TablesIdle
    /\ RegistryIdle
    /\ DagIdle

\* the chain of the DAG: a stage runs after the stage before it has ended
\* well; the main of data_ingestion.py runs store_data whatever the download
\* did
HandoffNext ==
    \/ last.op = "none" /\ download_kaggle_dataset
    \/ last.op = "download_kaggle_dataset" /\ store_data
    \/ last.op = "store_data" /\ last.outcome = "ok" /\ partition_raw_data
    \/ validate_latest
    \/ prepare_latest_file
    \/ Tick

SpecHandoff == HandoffInit /\ [][HandoffNext]_vars

----------------------------------------------------------------------------

(* Claims about the partitioning steps *)

StoredPaths(f) == { p \in DOMAIN f : p.root = StoredKaggle }
PartitionDir(f, d) == { p \in StoredPaths(f) : p.part = <<d>> }
RawRegular(f) == { n \in listdir(f, RawRoot, <<>>) : isfile(f, Path(RawRoot, <<>>, n)) }
RawFile(f, n) == f[Path(RawRoot, <<>>, n)]
\* everything on disk outside the raw folder, by path and content
Outputs(f) == [p \in { q \in DOMAIN f : q.root # RawRoot } |-> f[p].content]
Times == FirstSecond..LastSecond

\* this step is a run of op (and not the clock moving on after one)
OpStep(op) == nops' = nops + 1 /\ now' = now /\ last'.op = op
\* this step runs op again: the operation before it was op too, both ended
\* well, and nothing but time has passed in between
Rerun(op) == OpStep(op) /\ last'.outcome = "ok" /\ last.op = op /\ last.outcome = "ok"

\* the copies of raw file n that store_data runs have left in day d's partition
CopiesOf(f, n, d) ==
    { p \in PartitionDir(f, d) : \E t \in Times : p.name = new_file_name(n, time_str(t)) }

\* C3: running store_data twice on the same calendar day over a raw folder
\* holding a file with the same logical name leaves two retained files for
\* that name in the day's partition directory, for every pair of run times
\* within that day.
C3_TwoRunsTwoFiles ==
    [][ (Rerun("store_data") /\ Day(last.at) = Day(now))
          => \A n \in RawRegular(fs) : Cardinality(CopiesOf(fs', n, Day(now))) >= 2 ]_vars

\* C3, where it fails: store_data has run twice in one second and a raw file
\* has a single copy in the day's partition.
C3_SameSecondOneFile ==
    /\ last.op = "store_data" /\ last.again /\ last.outcome = "ok"
    /\ \E n \in RawRegular(fs) : Cardinality(CopiesOf(fs, n, Day(last.at))) = 1

\* C4: across any sequence of runs of store_data and partition_raw_data, a
\* file that is a member of a partition directory after one run is still a
\* member after every later run.
C4_PartitionOnlyGrows ==
    [][ \A p \in StoredPaths(fs) : p \in DOMAIN fs' ]_vars

\* C4's case: a partitioning step has run on a day whose partition already
\* held a file of an earlier run, and holds it still.
C4_EarlierMemberKept ==
    /\ last.op \in {"store_data", "partition_raw_data"}
    /\ \E p, q \in PartitionDir(fs, Day(last.at)) :
         fs[p].mtime < last.at /\ fs[q].mtime = last.at

\* C5: once a file has been written at a path under the stored partition
\* tree, no later run of a partitioning step changes the content at that
\* path.  (Stated of whole files and of runs that end well, so that a copy
\* which broke off is not what refutes it.)
C5_StoredImmutable ==
    [][ (last'.outcome = "ok")
          => \A p \in StoredPaths(fs) :
                fs[p].content # Truncated => (p \in DOMAIN fs' /\ fs'[p].content = fs[p].content) ]_vars

\* C6: for every regular file in the source folder, partition_raw_data writes
\* a copy to storage_root/kaggle/<yyyy>/<mm>/<dd>/<filename>, where the date
\* is the capture timestamp embedded in the name when the name has one and
\* the modification time when it has none; the source is left in place.
EmbeddedDay(name) == name.stamps[Len(name.stamps)].ymd
ClaimedDay(f, n) == IF Len(n.stamps) >= 1 THEN EmbeddedDay(n) ELSE Day(RawFile(f, n).mtime)
CopiedTo(f, n, d) ==
    /\ Path(StoredKaggle, <<d>>, n) \in DOMAIN f
    /\ f[Path(StoredKaggle, <<d>>, n)].content = RawFile(f, n).content
C6_PartitionByCaptureDate ==
    (last.op = "partition_raw_data" /\ last.outcome = "ok")
        => \A n \in RawRegular(fs) : CopiedTo(fs, n, ClaimedDay(fs, n))

\* C6 as amended: for every regular file of the source folder whose name
\* matches the timestamp pattern, partition_raw_data writes a copy to
\* storage_root/kaggle/<yyyy>/<mm>/<dd>/<filename>, the date being that of
\* the file's modification time; it writes nothing else, so a file whose
\* name has no timestamp is skipped; the source folder is left as it was.
C6_PartitionByMTime ==
    [][ (OpStep("partition_raw_data") /\ last'.outcome = "ok")
          => /\ \A n \in RawRegular(fs) :
                  timestamp_pattern_match(n) => CopiedTo(fs', n, Day(RawFile(fs, n).mtime))
             /\ \A p \in DOMAIN fs' :
                  (p \notin DOMAIN fs \/ fs'[p] # fs[p])
                     => \E n \in RawRegular(fs) :
                          /\ timestamp_pattern_match(n)
                          /\ p = Path(StoredKaggle, <<Day(RawFile(fs, n).mtime)>>, n)
             /\ \A p \in DOMAIN fs : p \in DOMAIN fs' /\ (p.root = RawRoot => fs'[p] = fs[p]) ]_vars

\* C6's case: partition_raw_data has copied a file whose embedded timestamp
\* is of another day than its modification time into the latter's partition,
\* and has passed over a file without a timestamp.
C6_CopiedByMTimeSkippedPlain ==
    /\ last.op = "partition_raw_data" /\ last.outcome = "ok"
    /\ \E n \in RawRegular(fs) :
         /\ timestamp_pattern_match(n)
         /\ EmbeddedDay(n) # Day(RawFile(fs, n).mtime)
         /\ CopiedTo(fs, n, Day(RawFile(fs, n).mtime))
         /\ fs[Path(StoredKaggle, <<Day(RawFile(fs, n).mtime)>>, n)].mtime = last.at
    /\ \E n \in RawRegular(fs) :
         /\ ~timestamp_pattern_match(n)
         /\ \A p \in StoredPaths(fs) : p.name # n

\* C7: no two pipeline stages write the same path.
C7_OneWriterPerPath ==
    \A p \in DOMAIN writers : Cardinality(writers[p]) = 1

\* C7, where it fails: a file of a partition directory has been written by
\* ingestion (store_data) and by raw storage (partition_raw_data).
C7_PartitionFileTwoWriters ==
    \E p \in StoredPaths(fs) :
        p \in DOMAIN writers /\ {"ingestion", "raw_storage"} \subseteq writers[p]

\* C8: every stage is idempotent under re-run: a second run with unchanged
\* inputs leaves the same set of on-disk output artifacts as the first.
C8_EveryStageIdempotent ==
    [][ \A op \in {"store_data", "partition_raw_data", "store_transformed_data"} :
          Rerun(op) => DOMAIN Outputs(fs') = DOMAIN Outputs(fs) ]_vars

\* C8 as amended: partition_raw_data and store_transformed_data are idempotent
\* under re-run (a second run with unchanged inputs leaves the same output
\* artifacts, path by path and content by content); store_data is so only
\* when re-run within the same second: re-run in a later second it writes,
\* for every regular file of the raw folder, <name>_<timestamp of the
\* re-run><ext> into the partition of the re-run's day.
RerunStamp(t) == [ymd |-> t \div SecsPerDay, hms |-> t % SecsPerDay]
C8_IdempotentButStore ==
    [][ /\ Rerun("partition_raw_data") => Outputs(fs') = Outputs(fs)
        /\ Rerun("store_transformed_data") => Outputs(fs') = Outputs(fs)
        /\ Rerun("store_data") =>
             /\ now = last.at => Outputs(fs') = Outputs(fs)
             /\ \A n \in RawRegular(fs) :
                  \E p \in PartitionDir(fs', Day(now)) :
                     /\ p.name = [n EXCEPT !.stamps = Append(@, RerunStamp(now))]
                     /\ fs'[p].content = RawFile(fs, n).content ]_vars

\* C8's case: partition_raw_data has been run again, in a later second, over
\* a folder holding a file it copies.
C8_PartitionRerun ==
    /\ last.op = "partition_raw_data" /\ last.again /\ last.outcome = "ok"
    /\ last.at > FirstSecond
    /\ \E n \in RawRegular(fs) :
         /\ timestamp_pattern_match(n)
         /\ RawFile(fs, n).mtime < last.at
         /\ CopiedTo(fs, n, Day(RawFile(fs, n).mtime))

\* the other two cases of C8: the database loaded twice, and store_data
\* re-run in a later second of the day, leaving two copies of a raw file
C8_TransformRerun ==
    /\ last.op = "store_transformed_data" /\ last.again /\ last.outcome = "ok"
    /\ FeaturesDb \in DOMAIN fs
C8_StoreRerunLater ==
    /\ last.op = "store_data" /\ last.again /\ last.outcome = "ok"
    /\ \E n \in RawRegular(fs) : Cardinality(CopiesOf(fs, n, Day(last.at))) >= 2

\* C9: in the batch loops a failure while copying one file is isolated to
\* that file: the loop goes on to copy every remaining file of the batch,
\* and the files already copied stay on disk.
NotCopiedBy(f, op, t) ==
    { n \in RawRegular(f) :
        IF op = "store_data"
        THEN LET dst == Path(StoredKaggle, <<Day(t)>>, new_file_name(n, time_str(t)))
             IN  ~(dst \in DOMAIN f /\ f[dst].content = RawFile(f, n).content /\ f[dst].mtime = t)
        ELSE /\ timestamp_pattern_match(n)
             /\ ~CopiedTo(f, n, Day(RawFile(f, n).mtime)) }
C9_FailureIsolated ==
    (last.op \in {"store_data", "partition_raw_data"} /\ last.outcome = "IOError")
        => Cardinality(NotCopiedBy(fs, last.op, last.at)) <= 1

\* C9, where it fails: a store_data run has ended in the error of one copy
\* and two files of the batch have no copy.
C9_BatchAbandoned ==
    /\ last.op = "store_data" /\ last.outcome = "IOError"
    /\ Cardinality(NotCopiedBy(fs, last.op, last.at)) >= 2

----------------------------------------------------------------------------
(* Claims about the resolver *)

\* the files a call may return: those matching the extension, and for the
\* preparation copy those not hidden
Matching == { f \in tree : /\ lower_endswith(f.name, extension)
                           /\ res.by = "preparation" => ~startswith_dot(f.name) }
Called == res.by # "none"

\* C1: find_latest_file(D, E) returns a file under D that matches E and whose
\* modification time is at least that of every other matching file, and it
\* returns None exactly when no file under D matches E.
C1_LatestOrNone ==
    Called =>
        /\ (res.value = None) <=> (Matching = {})
        /\ \A f \in res.value :
             /\ f \in Matching
             /\ \A g \in Matching : f.mtime >= g.mtime

\* C1, where it fails: the only matching file has modification time 0 (the
\* epoch) and the validation resolver has returned None.
C1_EpochFileMissed ==
    /\ res.by = "validation"
    /\ res.value = None
    /\ \E f \in Matching : f.mtime = 0

\* C2: the result of find_latest_file is the same for every order in which
\* the filesystem enumerates directories and files.
C2_OrderInvariant ==
    Called =>
        \A o \in os_walk(rootExists, tree) :
            /\ res.by = "validation" => find_latest_file_validation(o, extension) = res.value
            /\ res.by = "preparation" => find_latest_file_preparation(o, extension) = res.value

\* C2, where it fails: two matching files share the maximum modification
\* time and another walk order returns the other one.
C2_TieDependsOnOrder ==
    /\ res.by = "validation"
    /\ \E f \in res.value : \E g \in Matching : g # f /\ g.mtime = f.mtime
    /\ \E o \in os_walk(rootExists, tree) :
         find_latest_file_validation(o, extension) # res.value

\* C10: find_latest_file on a root directory that does not exist fails with a
\* not-found error, distinct from the None of an empty existing directory.
C10_MissingRootRaises ==
    (Called /\ ~rootExists) => res.outcome = "NotFoundError"

\* C10, where it fails: the root does not exist and the call has returned None.
C10_MissingRootReturnsNone ==
    /\ Called
    /\ ~rootExists
    /\ res.outcome = "returned"
    /\ res.value = None

\* C11: in both stages, find_latest_file never returns a file whose name
\* starts with '.', even when it matches the extension and is the newest.
C11_NeverHidden ==
    Called => \A f \in res.value : ~startswith_dot(f.name)

\* C11, where it fails: the validation resolver has returned a hidden file
\* that matches the extension and is strictly newer than every other match.
C11_ValidationReturnsHidden ==
    /\ res.by = "validation"
    /\ \E f \in res.value :
         /\ startswith_dot(f.name)
         /\ lower_endswith(f.name, extension)
         /\ \E g \in tree : g # f /\ lower_endswith(g.name, extension)
         /\ \A g \in tree : (g # f /\ lower_endswith(g.name, extension)) => g.mtime < f.mtime

----------------------------------------------------------------------------
(* Claims about the tables *)

Prepared == clean.outcome = "ok"
HasMissing(t) == \E i \in DOMAIN t.rows : \E c \in Range(t.cols) : isnull(t.rows[i][c])
HasDuplicates(t) ==
    \E i, j \in DOMAIN t.rows : i < j /\ t.rows[i] = t.rows[j]

\* C12: for every raw table, the table prepare_data produces has no missing
\* value in any cell and no two identical rows.
C12_NoMissingNoDuplicates ==
    Prepared =>
        /\ ~HasMissing(clean.table)
        /\ ~HasDuplicates(clean.table)

\* C12, where it fails: the raw table has a single row and no missing value,
\* and the numeric column of the prepared table is NaN.
C12_SingleRowBecomesNaN ==
    /\ Prepared
    /\ raw.kind = "csv" /\ Len(raw.rows) = 1
    /\ ~HasMissing(raw)
    /\ HasMissing(clean.table)

\* C12, a second way: rows that differed only in a column of more than 50
\* levels are identical once that column is dropped.
C12_DuplicatesAfterDrop ==
    /\ Prepared
    /\ ~HasDuplicates(raw)
    /\ HasDuplicates(clean.table)

\* the raw file is a table with a STATUS_TERMINATED column of 0 and 1 only
BinaryLabel ==
    /\ raw.kind = "csv"
    /\ STATUS_TERMINATED \in Range(raw.cols)
    /\ \A i \in DOMAIN raw.rows : raw.rows[i][STATUS_TERMINATED] \in {Num(0), Num(1)}
Original(i) == raw.rows[i][STATUS_TERMINATED].v \div 2

\* C13: for a raw CSV of N rows with a STATUS_TERMINATED column of 0 and 1
\* only, preparation followed by load_and_prepare_data gives a table of N
\* rows whose churn column equals the original STATUS_TERMINATED row by row
\* and that has no STATUS_TERMINATED column.
C13_ChurnIsOriginalLabel ==
    (BinaryLabel /\ Prepared /\ ready.outcome # "none") =>
        /\ ready.returned = "X, y"
        /\ Len(ready.y) = Len(raw.rows)
        /\ \A i \in DOMAIN raw.rows : ready.y[i] = Original(i)
        /\ STATUS_TERMINATED \notin Range(ready.X.cols)

\* C13, where it fails: every row of the raw table comes through (none is a
\* duplicate or an outlier), both labels occur, and the churn of a row whose
\* label was 1 is 0.
C13_ChurnCutToZero ==
    /\ BinaryLabel
    /\ ready.returned = "X, y"
    /\ Len(ready.y) = Len(raw.rows)
    /\ \E i \in DOMAIN raw.rows : Original(i) = 1 /\ ready.y[i] = 0

\* C13, a second way: rows are lost to the duplicate and outlier steps.
C13_RowsLost ==
    /\ BinaryLabel
    /\ ready.returned = "X, y"
    /\ Len(ready.y) < Len(raw.rows)

\* the three states of a categorical column after prepare_data
Indicators(t, c) == { d \in Range(t.cols) : d.name = c.name /\ d.level > 0 }
OneHotState(t, c) == c \notin Range(t.cols) /\ Indicators(t, c) # {}
LabelState(t, c) == c \in Range(t.cols) /\ t.dtype[c] = "int64" /\ Indicators(t, c) = {}
AbsentState(t, c) == c \notin Range(t.cols) /\ Indicators(t, c) = {}

RawTable == read_csv(raw).table
Categorical(t) == { c \in Range(t.cols) : t.dtype[c] = "object" }
Distinct(t, c) == { x.v : x \in Range(notna(column(t, c))) }
AllButFirst(S) == { v \in S : \E w \in S : w < v }

\* C14: after prepare_data every categorical column of the input is one-hot
\* encoded without its first level when it has at most 20 distinct values,
\* label-encoded into one integer column when it has 21 to 50, and absent
\* when it has more than 50.
C14_RoutedByInputCardinality ==
    Prepared =>
        \A c \in Categorical(RawTable) :
            LET n == Cardinality(Distinct(RawTable, c))
            IN  /\ n <= OneHotMax => OneHotState(clean.table, c)
                /\ (n > OneHotMax /\ n <= LabelMax) => LabelState(clean.table, c)
                /\ n > LabelMax => AbsentState(clean.table, c)

\* the table as it is when the categorical columns are treated
Remaining == clean_numeric(RawTable)

\* C14, amended: the columns dropped by name are absent; every other
\* categorical column is treated by the number n of distinct values it has
\* in the rows left after duplicates and outliers are removed: when n <= 20
\* it is replaced by one indicator column per level but the first (so by
\* none when n <= 1), when 21 <= n <= 50 it is kept as one integer column
\* holding the rank of each level, when n > 50 it is absent.
C14_RoutedByRemainingCardinality ==
    Prepared =>
        LET R == Remaining
            t == clean.table
        IN  /\ \A c \in cols_to_drop : AbsentState(t, c)
            /\ \A c \in Categorical(R) :
                LET D == Distinct(R, c)
                    n == Cardinality(D)
                IN  /\ n <= OneHotMax =>
                        /\ c \notin Range(t.cols)
                        /\ Indicators(t, c) = { Dummy(c.name, v) : v \in AllButFirst(D) }
                        /\ \A d \in Indicators(t, c) : \A i \in DOMAIN t.rows :
                             t.rows[i][d] = Bool(R.rows[i][c].v = d.level)
                    /\ (n > OneHotMax /\ n <= LabelMax) =>
                        /\ LabelState(t, c)
                        /\ \A i \in DOMAIN t.rows :
                             t.rows[i][c] =
                                Num(Cardinality({ v \in D : v < R.rows[i][c].v }))
                    /\ n > LabelMax => AbsentState(t, c)

\* C14, where the original statement fails and the amended one applies: the
\* column has 21 distinct values in the input, a row is removed as an
\* outlier, and the column is one-hot encoded into 19 indicator columns.
C14_OneHotAfterOutlier ==
    /\ Prepared
    /\ City \in Categorical(RawTable)
    /\ City \in Categorical(Remaining)
    /\ Cardinality(Distinct(RawTable, City)) = OneHotMax + 1
    /\ Cardinality(Distinct(Remaining, City)) = OneHotMax
    /\ Cardinality(Indicators(clean.table, City)) = OneHotMax - 1
    /\ City \notin Range(clean.table.cols)

\* C14: the other tiers are reached too: a column of 21 to 50 levels kept as
\* one integer column, and a column of more than 50 levels dropped.
C14_LabelEncoded ==
    /\ Prepared
    /\ City \in Categorical(Remaining)
    /\ Cardinality(Distinct(Remaining, City)) > OneHotMax
    /\ LabelState(clean.table, City)

C14_HighCardinalityDropped ==
    /\ Prepared
    /\ City \in Categorical(Remaining)
    /\ Cardinality(Distinct(Remaining, City)) > LabelMax
    /\ AbsentState(clean.table, City)

\* C15: validate_data never raises: for every input, a missing or malformed
\* file included, it returns a report; when an exception occurs while the
\* report is computed, the report has an error field with the exception's
\* text and keeps the fields computed before the exception.
C15_AlwaysAReport ==
    report.outcome # "none" =>
        /\ report.outcome = "returned"
        /\ raw.kind # "csv" => (report.keys = {"error"} /\ report.error # "")
        /\ (raw.kind = "csv" /\ Len(raw.cols) = 0) => report.keys = {"error"}
        /\ (raw.kind = "csv" /\ Age \in Range(raw.cols)
              /\ \E i \in DOMAIN raw.rows : raw.rows[i][Age].k = "str") =>
                /\ report.keys = {"total_rows", "total_columns", "missing_values",
                                  "duplicate_rows", "error"}
                /\ report.error = "TypeError"
                /\ report.total_rows = Len(raw.rows)
                /\ report.total_columns = Len(raw.cols)
                /\ report.missing_values = <<>>
                /\ report.duplicate_rows =
                     Len(raw.rows) - Cardinality(Range(raw.rows))
        /\ "error" \notin report.keys =>
                {"total_rows", "total_columns", "missing_values", "duplicate_rows"}
                    \subseteq report.keys

\* C15, its case: the Age column holds text, the comparison with 18 raised
\* after the counts were taken, and the report has them and the error.
C15_PartialReport ==
    /\ report.outcome = "returned"
    /\ "error" \in report.keys
    /\ "duplicate_rows" \in report.keys
    /\ report.total_rows > 1
    /\ report.duplicate_rows > 0

\* C15: a missing file gives a report of the error alone.
C15_MissingFileReport ==
    /\ raw.kind = "missing"
    /\ report.outcome = "returned"
    /\ report.keys = {"error"}

----------------------------------------------------------------------------
(* Claims about the feature registry *)

RegisteredNames == { calls[i].name : i \in DOMAIN calls }
LastCallOf(n) ==
    CHOOSE i \in DOMAIN calls :
        calls[i].name = n /\ \A j \in DOMAIN calls : calls[j].name = n => j <= i
LastWrites == [ n \in RegisteredNames |-> calls[LastCallOf(n)].metadata ]

\* C16: after any sequence of register_feature calls starting from an absent
\* registry file, list_features returns the mapping from each registered
\* name to the description, source and version of the last call for that
\* name, and get_feature_metadata returns that record for a registered name
\* and None for a name never registered.
C16_LastWriteWins ==
    /\ answer.op = "list_features" =>
         /\ DOMAIN answer.all = RegisteredNames
         /\ \A n \in RegisteredNames : answer.all[n] = LastWrites[n]
    /\ answer.op = "get_feature_metadata" =>
         IF answer.name \in RegisteredNames
         THEN answer.found /\ answer.record = LastWrites[answer.name]
         ELSE ~answer.found

\* C16, its case: a name registered twice with different metadata and
\* another name registered besides, and list_features has been called.
C16_ReRegisteredAndListed ==
    /\ answer.op = "list_features"
    /\ Cardinality(RegisteredNames) = 2
    /\ \E i, j \in DOMAIN calls :
         i < j /\ calls[i].name = calls[j].name /\ calls[i].metadata # calls[j].metadata

\* C16: a name never registered has been asked for while others are registered.
C16_UnknownNameIsNone ==
    /\ answer.op = "get_feature_metadata"
    /\ answer.name \notin RegisteredNames
    /\ RegisteredNames # {}
    /\ ~answer.found

----------------------------------------------------------------------------
(* Claims about the stages of a run *)

Ended(t) == tasks[t].state \in {"success", "up_for_retry", "failed"}
Ends(t) == tasks[t].state = "running" /\ tasks'[t].state # "running"
NoCsvUnder(f, root) ==
    \A p \in DOMAIN f :
        (p.root = root /\ f[p].kind = "file") => ~lower_endswith(p.name, ".csv")

\* C17: when the directory a stage searches holds no CSV file, the resolver
\* returns None and the validation and preparation stages stop there: the
\* run writes no clean_data.csv, whole or partial, and no report file.
C17_NoInputNoOutput ==
    [][ /\ (Ends("data_validation") /\ NoCsvUnder(fs, RawRoot)) =>
              /\ fs' = fs
              /\ Len(trail') = 1 /\ trail'[1].step = "find_latest_file"
        /\ (Ends("data_preparation") /\ NoCsvUnder(fs, StoredKaggle)) =>
              /\ fs' = fs
              /\ Len(trail') = 1 /\ trail'[1].step = "find_latest_file" ]_vars

\* C17, its case: the download failed into an empty raw folder, nothing was
\* stored, and validation and preparation have both ended without a report
\* or a cleaned table.
C17_BothStoppedEarly ==
    /\ Ended("data_validation") /\ Ended("data_preparation")
    /\ NoCsvUnder(fs, RawRoot) /\ NoCsvUnder(fs, StoredKaggle)
    /\ ReportFile \notin DOMAIN fs
    /\ CleanData \notin DOMAIN fs

\* the cleaned table is there and has no STATUS_TERMINATED column
CleanWithoutLabel ==
    /\ CleanData \in DOMAIN fs
    /\ Len(fs[CleanData].content.cols) > 0
    /\ STATUS_TERMINATED \notin Range(fs[CleanData].content.cols)

\* C18: when the processed table has no STATUS_TERMINATED column, the model
\* building stage ends in an error, not in a normal completion, and writes
\* no model file.
C18_MissingLabelFailsHard ==
    (Ended("model_building") /\ CleanWithoutLabel) =>
        /\ tasks["model_building"].state \in {"up_for_retry", "failed"}
        /\ ModelFile \notin DOMAIN fs

\* C18, where it fails: the table has no label column, load_and_prepare_data
\* returned None, None and the stage has ended as a success; no model file
\* was written.
C18_MissingLabelEndsNormally ==
    /\ CleanWithoutLabel
    /\ ready.returned = "None, None"
    /\ tasks["model_building"].state = "success"
    /\ ModelFile \notin DOMAIN fs

\* C19: when a shelled-out command exits with a non-zero code, the stage
\* that ran it ends in an error and runs none of its later steps.
C19_FailedCommandFailsStage ==
    \A i \in DOMAIN trail :
        (trail[i].cli /\ trail[i].exit # 0) =>
            /\ i = Len(trail)
            /\ tasks[trail[i].task].state \in {"up_for_retry", "failed"}

\* C19, where it fails: the download exited with a non-zero code, store_data
\* ran after it and the ingestion stage has ended as a success.
C19_DownloadFailedStoreRan ==
    /\ Len(trail) = 2
    /\ trail[1].step = "kaggle datasets download" /\ trail[1].exit # 0
    /\ trail[2].step = "store_data"
    /\ tasks["data_ingestion"].state = "success"

\* C19, the same in versioning: git commit failed, git tag ran after it and
\* the stage has ended as a success.
C19_CommitFailedTagRan ==
    /\ tasks["data_versioning"].state = "success"
    /\ \E i \in DOMAIN trail :
         /\ trail[i].step = "git commit" /\ trail[i].exit # 0
         /\ i < Len(trail) /\ trail[i + 1].step = "git tag v1.0"

\* C20: in a run the eight stages execute as one chain, in the order
\* ingestion, raw storage, validation, preparation, transformation, feature
\* store, versioning, model building: a stage has started only if its
\* predecessor completed successfully, and no two stages execute at once.
C20_OneChain ==
    /\ \A i \in 2..Len(TaskIds) :
         tasks[TaskIds[i]].state # "none" => tasks[TaskIds[i - 1]].state = "success"
    /\ Cardinality({ t \in Range(TaskIds) : tasks[t].state = "running" }) <= 1

\* C20, its case: all eight stages have succeeded, one of them on its retry.
C20_ChainCompleted ==
    /\ \A t \in Range(TaskIds) : tasks[t].state = "success"
    /\ \E t \in Range(TaskIds) : tasks[t].tries = 2

\* C20: a stage has failed twice and the stages after it have not started.
C20_ChainStopsAtFailure ==
    \E i \in 1..(Len(TaskIds) - 1) :
        /\ tasks[TaskIds[i]].state = "failed"
        /\ \A j \in (i + 1)..Len(TaskIds) : tasks[TaskIds[j]].state = "none"

----------------------------------------------------------------------------
(* Claims about the hand-over from validation to preparation *)

CsvUnder(f, root) ==
    { p \in DOMAIN f : p.root = root /\ f[p].kind = "file" /\ lower_endswith(p.name, ".csv") }
\* one CSV file under the root is newer than every other one
StrictNewest(f, root) ==
    \E p \in CsvUnder(f, root) : \A q \in CsvUnder(f, root) \ {p} : f[q].mtime < f[p].mtime

\* C21: in a run, the file the validation stage reports on and the file the
\* preparation stage cleans hold the same content, whatever files the raw
\* folder holds and in whatever order store_data copies them; either both
\* stages find a file or neither does.
C21_SameArtifact ==
    last.op = "prepare_data" =>
        /\ ReportFile \in DOMAIN fs <=> CleanData \in DOMAIN fs
        /\ (ReportFile \in DOMAIN fs /\ CleanData \in DOMAIN fs) =>
              fs[ReportFile].content = fs[CleanData].content

\* C21, where it fails: no two files share a modification time, the newest
\* raw file is of one version and the newest stored file, which preparation
\* cleaned, is of the other.
C21_ValidatedOneCleanedOther ==
    /\ last.op = "prepare_data"
    /\ StrictNewest(fs, RawRoot) /\ StrictNewest(fs, StoredKaggle)
    /\ ReportFile \in DOMAIN fs /\ CleanData \in DOMAIN fs
    /\ fs[ReportFile].content # fs[CleanData].content

\* C21, its plain case: the raw folder holds one file and both stages read
\* the same content.
C21_SingleFileAgrees ==
    /\ last.op = "prepare_data"
    /\ Cardinality(CsvUnder(fs, RawRoot)) = 1
    /\ ReportFile \in DOMAIN fs /\ CleanData \in DOMAIN fs
    /\ fs[ReportFile].content = fs[CleanData].content

----------------------------------------------------------------------------
(* Claims about two register_feature calls at once *)

BothDone == \A i \in Callers : inflight[i].pc = "done"
\* one call had returned before the other started
OneAfterTheOther == \E i \in Callers : inflight[i].other = "done"
\* each call read the document before the other opened the file to write
BothReadFirst == \A i \in Callers : inflight[i].other \in {"idle", "loaded"}
Holds(i) ==
    /\ registry.valid
    /\ inflight[i].name \in DOMAIN registry.object
    /\ registry.object[inflight[i].name] = inflight[i].metadata
\* neither name was in the document the calls read
BothNew ==
    \A i, j \in Callers : inflight[i].name \notin DOMAIN inflight[j].feature_store

\* C22: two register_feature calls for distinct names.  When one has
\* returned before the other starts, the final document holds both
\* features; when each reads the document before the other writes it, the
\* final document never holds both: an update is lost.
C22_SerialKeepsBothOverlapLoses ==
    BothDone =>
        /\ OneAfterTheOther => \A i \in Callers : Holds(i)
        /\ (BothReadFirst /\ BothNew) => ~(\A i \in Callers : Holds(i))

\* C22, the lost update: both calls read before either wrote, both have
\* returned, and the document holds the second writer's feature only.
C22_LostUpdate ==
    /\ BothDone /\ BothReadFirst /\ BothNew
    /\ registry.valid
    /\ \E i \in Callers :
         /\ Holds(i)
         /\ inflight[Other(i)].name \notin DOMAIN registry.object

\* C22, the calls one after the other: the document holds both features.
C22_SerialHoldsBoth ==
    /\ BothDone /\ OneAfterTheOther
    /\ \A i \in Callers : Holds(i)

\* C22, other ends of an overlap: the shorter document written over the
\* longer one leaves text json.load rejects; a call that reads the file
\* while the other has it open for writing raises.
C22_DocumentRejected ==
    /\ BothDone /\ BothReadFirst
    /\ ~registry.valid

C22_ReaderRaises ==
    \E i \in Callers : inflight[i].pc = "JSONDecodeError"

====
